---- MODULE Spec2Model ----
(***************************************************************************)
(* modal-llama: model of the model catalog resolver (models.py) and of the *)
(* process lifecycle coordinator (baremetal/serve.py, modal/serve.py,      *)
(* nginx.py, llama_swap.py).                                               *)
(*                                                                         *)
(* Strings whose characters the code inspects (file names, glob patterns)  *)
(* are sequences of one-character strings, so that globbing, the shard     *)
(* regular expressions and iteration over a str are computed, not assumed. *)
(***************************************************************************)
EXTENDS Integers, Sequences, FiniteSets, TLC

VARIABLES
    \* ---- find_gguf_entrypoint run on its own (ResolveSpec) ----
    rpc,          \* "start" | "globbed" | "done"
    rfiles,       \* files below repo_dir (paths relative to repo_dir)
    rinclude,     \* the include argument
    rcandidates,  \* the set candidates (models.py:23-25)
    rresult,      \* what the call produced: a path or a raised error
    \* ---- serve (Spec) ----
    pc,           \* position of serve
    variant,      \* "baremetal" (baremetal/serve.py) | "modal" (modal/serve.py)
    detach,       \* the --detach option
    api_token,    \* os.environ.get("API_TOKEN", None)
    binary_exists,\* does the llama.cpp backend binary exist
    next_model,   \* index of the next add_model call of prep_common_models
    models,       \* cfg.models: the names added so far
    warned,       \* the "not protected by token authentication" warning was printed
    nginx_auth,   \* the generated nginx configuration holds the auth block
    proc,         \* state of each child process
    terminate_calls, \* the Popen.terminate() calls serve made, in order
    terminate_failed,\* the children whose terminate() call raised
    waited,       \* serve called llama_swap_proc.wait()
    wait_result,  \* what wait() returned (the supervisor's exit code), or NoCode
    interrupts,   \* the number of KeyboardInterrupts delivered to serve
    handler_entered, \* the except handler of serve was entered
    error,        \* the exception that left serve, or "none"
    exit_code     \* exit code of the serve process, or NoCode while it runs

rvars == <<rpc, rfiles, rinclude, rcandidates, rresult>>
svars == <<pc, variant, detach, api_token, binary_exists, next_model, models,
           warned, nginx_auth, proc, terminate_calls, terminate_failed, waited, wait_result,
           interrupts, handler_entered, error, exit_code>>
(***************************************************************************)
(* State of LlamaSwapConfig (llama_swap.py): the configuration objects on  *)
(* the heap, the written configuration file and the supervisor launch      *)
(***************************************************************************)
VARIABLES
    cpc,          \* "idle", "new", "building" or "launched"
    cfgs,         \* heap of LlamaSwapConfig objects, indexed by identity
    cur,          \* identity the caller holds: the result of the last call
    last_added,   \* history: name |-> the entry most recently passed to add_model
    overwritten,  \* history: names stored a second time with a different entry
    cfg_file,     \* parsed content of the written configuration file, <<>> before
    launch_argv   \* argv of the launched supervisor, <<>> before

cvars == <<cpc, cfgs, cur, last_added, overwritten, cfg_file, launch_argv>>

\* a mapping without keys
EmptyMap == [n \in {} |-> <<>>]

\* the configuration component takes no part in the other specifications
ConfigIdle ==
    /\ cpc = "idle"
    /\ cfgs = <<>>
    /\ cur = 0
    /\ last_added = EmptyMap
    /\ overwritten = {}
    /\ cfg_file = <<>>
    /\ launch_argv = <<>>

(***************************************************************************)
(* State of start_nginx_reverse_proxy (nginx.py): one call                 *)
(***************************************************************************)
VARIABLES
    npc,          \* "idle", "called", "rendered", "written" or "started"
    n_token,      \* argument api_token: "None", or the token
    n_upstream,   \* argument llama_swap_port
    n_listen,     \* argument listen_port
    config_content, \* the rendered configuration, <<>> before
    config_path,  \* name of the temporary file written, "" before
    nginx_argv    \* argv of the started nginx, <<>> before

nvars == <<npc, n_token, n_upstream, n_listen, config_content, config_path, nginx_argv>>

NginxIdle ==
    /\ npc = "idle"
    /\ n_token = "None"
    /\ n_upstream = 0
    /\ n_listen = 0
    /\ config_content = <<>>
    /\ config_path = ""
    /\ nginx_argv = <<>>

(***************************************************************************)
(* State of LlamaCppConfig (llama_cpp.py): the objects on the heap and the *)
(* calls made on them                                                      *)
(***************************************************************************)
VARIABLES
    lpc,          \* "idle", "new" or "ready"
    lheap,        \* heap of LlamaCppConfig objects, indexed by identity
    existing,     \* the paths that exist in the file system
    base0,        \* history: the base config as it was constructed
    base_cmd,     \* history: outcome of build on the base when constructed
    recv,         \* history: identity of the receiver of the last call, 0 before
    before,       \* history: the receiver as it was when the last call began
    lret,         \* identity returned by the last derivation, 0 before
    built         \* the last call if it was a build, and its outcome, else <<>>

lvars == <<lpc, lheap, existing, base0, base_cmd, recv, before, lret, built>>

LlamaCppIdle ==
    /\ lpc = "idle"
    /\ lheap = <<>>
    /\ existing = {}
    /\ base0 = <<>>
    /\ base_cmd = <<>>
    /\ recv = 0
    /\ before = <<>>
    /\ lret = 0
    /\ built = <<>>

(***************************************************************************)
(* State of two serve invocations on one host, from the call of            *)
(* start_llama_swap_server on (llama_swap.py:80-102), and of the file      *)
(* they both write                                                         *)
(***************************************************************************)
VARIABLES
    inv_pc,       \* per invocation: "idle", "start", "opened", "written",
                  \* "printed", "spawned" or "loaded"
    inv_cfg,      \* per invocation: its LlamaSwapConfig
    shared_file,  \* /tmp/llama_swap_config.yaml: whether it exists, and its
                  \* text: <<>> when empty, else <<document>>
    inv_read      \* per invocation: <<>>, or <<text>> its supervisor read

tvars == <<inv_pc, inv_cfg, shared_file, inv_read>>

RaceIdle ==
    /\ inv_pc = <<"idle", "idle">>
    /\ inv_cfg = <<>>
    /\ shared_file = [exists |-> FALSE, text |-> <<>>]
    /\ inv_read = <<<<>>, <<>>>>

xvars == <<cvars, nvars, lvars, tvars>>
OthersIdle == ConfigIdle /\ NginxIdle /\ LlamaCppIdle /\ RaceIdle

vars == <<rvars, svars, xvars>>

(***************************************************************************)
(* Bounds                                                                  *)
(***************************************************************************)
\* largest number of files in a repository directory
MaxFiles == 4

(***************************************************************************)
(* String literals of the source, and the file names of the repositories   *)
(* the source downloads (models.py:83, 98, 130, 155).                      *)
(***************************************************************************)
P_gguf ==
    <<"*",".","g","g","u","f">>
P_q4 ==
    <<"*","Q","4","_","K","_","M","*">>
P_dots ==
    <<"U","D","-","Q","6","_","K","_","X","L","/","*",".","g","g","u","f">>
P_kimi ==
    <<"K","i","m","i","-","D","e","v","-","7","2","B","-","Q","6","_","K","-","*",".","g","g","u","f">>
P_mistral ==
    <<"*","-","U","D","-","Q","6","_","K","_","X","L",".","g","g","u","f">>
S_of ==
    <<"-","o","f","-">>
S_gguf ==
    <<".","g","g","u","f">>
F_q4 ==
    <<"D","e","e","p","S","e","e","k","-","R","1","-","0","5","2","8","-","Q","w","e","n","3","-","8","B","-","Q","4","_","K","_","M",".","g","g","u","f">>
F_q8 ==
    <<"D","e","e","p","S","e","e","k","-","R","1","-","0","5","2","8","-","Q","w","e","n","3","-","8","B","-","Q","8","_","0",".","g","g","u","f">>
F_readme ==
    <<"R","E","A","D","M","E",".","m","d">>
F_dots1 ==
    <<"U","D","-","Q","6","_","K","_","X","L","/","d","o","t","s",".","l","l","m","1",".","i","n","s","t","-","U","D","-","Q","6","_","K","_","X","L","-","0","0","0","0","1","-","o","f","-","0","0","0","0","3",".","g","g","u","f">>
F_dots2 ==
    <<"U","D","-","Q","6","_","K","_","X","L","/","d","o","t","s",".","l","l","m","1",".","i","n","s","t","-","U","D","-","Q","6","_","K","_","X","L","-","0","0","0","0","2","-","o","f","-","0","0","0","0","3",".","g","g","u","f">>
F_dots3 ==
    <<"U","D","-","Q","6","_","K","_","X","L","/","d","o","t","s",".","l","l","m","1",".","i","n","s","t","-","U","D","-","Q","6","_","K","_","X","L","-","0","0","0","0","3","-","o","f","-","0","0","0","0","3",".","g","g","u","f">>
F_kimi1 ==
    <<"K","i","m","i","-","D","e","v","-","7","2","B","-","Q","6","_","K","-","0","0","0","0","1","-","o","f","-","0","0","0","0","2",".","g","g","u","f">>
F_kimi2 ==
    <<"K","i","m","i","-","D","e","v","-","7","2","B","-","Q","6","_","K","-","0","0","0","0","2","-","o","f","-","0","0","0","0","2",".","g","g","u","f">>
F_mistral ==
    <<"M","i","s","t","r","a","l","-","S","m","a","l","l","-","3",".","2","-","2","4","B","-","I","n","s","t","r","u","c","t","-","2","5","0","6","-","U","D","-","Q","6","_","K","_","X","L",".","g","g","u","f">>
\* shards whose numbers are not zero-padded
F_k9 ==
    <<"k","-","9","-","o","f","-","1","0",".","g","g","u","f">>
F_k10 ==
    <<"k","-","1","0","-","o","f","-","1","0",".","g","g","u","f">>

\* the files a repository directory may hold
FilePool ==
    {F_q4, F_q8, F_readme, F_dots1, F_dots2, F_dots3, F_kimi1, F_kimi2, F_mistral,
     F_k9, F_k10}

\* the repository directories: at most MaxFiles files of the pool
Repos == {fs \in SUBSET FilePool : Cardinality(fs) <= MaxFiles}

(***************************************************************************)
(* The include argument: list[str] | str | None (models.py:18).  val is    *)
(* the sequence of patterns of a list, the one string of a str, <<>> for   *)
(* None.                                                                   *)
(***************************************************************************)
IncNone == [kind |-> "none", val |-> <<>>]
IncList(ps) == [kind |-> "list", val |-> ps]
IncStr(s) == [kind |-> "str", val |-> <<s>>]

\* the include arguments find_gguf_entrypoint is run with: the ones the source
\* passes, and None
Includes ==
    {IncNone, IncList(<<P_gguf>>), IncStr(P_q4), IncList(<<P_q4>>),
     IncList(<<P_dots>>), IncList(<<P_kimi, P_mistral>>)}

(***************************************************************************)
(* pathlib globbing                                                        *)
(***************************************************************************)
\* fnmatch of one pattern against a path, both from their first character:
\* "*" matches any run of characters inside one path component
RECURSIVE Match(_, _)
Match(p, n) ==
    IF p = <<>> THEN n = <<>>
    ELSE IF Head(p) = "*"
         THEN \/ Match(Tail(p), n)
              \/ n # <<>> /\ Head(n) # "/" /\ Match(p, Tail(n))
         ELSE n # <<>> /\ Head(n) = Head(p) /\ Match(Tail(p), Tail(n))

\* Path.rglob(pattern) is glob("**/" + pattern): the pattern matches the
\* last components of the path
RMatch(p, n) ==
    \E i \in 1..Len(n) :
        /\ i = 1 \/ n[i - 1] = "/"
        /\ Match(p, SubSeq(n, i, Len(n)))

\* the directories below repo_dir: rglob yields directories as well as files
Dirs(files) ==
    UNION {{SubSeq(f, 1, i - 1) : i \in {j \in 1..Len(f) : f[j] = "/"}} :
           f \in files}

Entries(files) == files \cup Dirs(files)

rglob(files, pattern) == {e \in Entries(files) : RMatch(pattern, e)}

\* Path.name: the last component
basename(p) ==
    LET slashes == {i \in 1..Len(p) : p[i] = "/"}
    IN  IF slashes = {} THEN p
        ELSE SubSeq(p, (CHOOSE i \in slashes : \A k \in slashes : k <= i) + 1, Len(p))

(***************************************************************************)
(* find_gguf_entrypoint, models.py:17-50                                   *)
(***************************************************************************)
\* "for pattern in include" (models.py:24): a list yields its elements, a str
\* yields its characters, each a one-character pattern
IncludePatterns(include) ==
    IF include.kind = "none" THEN {P_gguf}
    ELSE IF include.kind = "list"
         THEN {include.val[i] : i \in 1..Len(include.val)}
         ELSE {<<include.val[1][i]>> : i \in 1..Len(include.val[1])}

\* models.py:20-25
Candidates(files, include) ==
    UNION {rglob(files, p) : p \in IncludePatterns(include)}

IsDigit(c) == c \in {"0", "1", "2", "3", "4", "5", "6", "7", "8", "9"}

DigitVal(c) ==
    CASE c = "0" -> 0 [] c = "1" -> 1 [] c = "2" -> 2 [] c = "3" -> 3
      [] c = "4" -> 4 [] c = "5" -> 5 [] c = "6" -> 6 [] c = "7" -> 7
      [] c = "8" -> 8 [] c = "9" -> 9

\* int(digits)
RECURSIVE ToInt(_)
ToInt(ds) ==
    IF ds = <<>> THEN 0
    ELSE 10 * ToInt(SubSeq(ds, 1, Len(ds) - 1)) + DigitVal(ds[Len(ds)])

\* the last index of the run of digits that starts at i (i - 1: no digit at i)
RECURSIVE DigitRunEnd(_, _)
DigitRunEnd(n, i) ==
    IF i <= Len(n) /\ IsDigit(n[i]) THEN DigitRunEnd(n, i + 1) ELSE i - 1

LitAt(n, i, lit) ==
    /\ i + Len(lit) - 1 <= Len(n)
    /\ SubSeq(n, i, i + Len(lit) - 1) = lit

\* r"\d+-of-\d+\.gguf$" matches n from index i (models.py:39)
ShardSuffixAt(n, i) ==
    LET j == DigitRunEnd(n, i)
        k == DigitRunEnd(n, j + 5)
    IN  /\ j >= i
        /\ LitAt(n, j + 1, S_of)
        /\ k >= j + 5
        /\ LitAt(n, k + 1, S_gguf)
        /\ k + Len(S_gguf) = Len(n)

\* the filter of models.py:36-40
MatchesShardSuffix(p) ==
    LET n == basename(p)
    IN  /\ Len(n) >= Len(S_gguf)
        /\ LitAt(n, Len(n) - Len(S_gguf) + 1, S_gguf)
        /\ \E i \in 1..Len(n) : ShardSuffixAt(n, i)

\* r"(\d+)-of-\d+" matches n from index i (models.py:45)
ShardKeyAt(n, i) ==
    LET j == DigitRunEnd(n, i)
    IN  /\ j >= i
        /\ LitAt(n, j + 1, S_of)
        /\ j + 5 <= Len(n)
        /\ IsDigit(n[j + 5])

\* the sort key of models.py:45: int(re.search(...).group(1)), re.search
\* taking the leftmost match
LeftmostShardNumber(p) ==
    LET n == basename(p)
        starts == {i \in 1..Len(n) : ShardKeyAt(n, i)}
        i0 == CHOOSE i \in starts : \A k \in starts : i <= k
    IN  ToInt(SubSeq(n, i0, DigitRunEnd(n, i0)))

\* the filter and the key of every entry a repository directory of the
\* bounds can hold, computed once
MultiFileOf == [p \in Entries(FilePool) |-> MatchesShardSuffix(p)]

ShardKeyOf ==
    [p \in {q \in Entries(FilePool) : MultiFileOf[q]} |-> LeftmostShardNumber(p)]

IsMultiFile(p) == MultiFileOf[p]

ShardKey(p) == ShardKeyOf[p]

\* list.sort(key=...) computes the key of every element once and sorts the
\* pairs <<key, element>> by key; the sort is stable: x goes after the pairs
\* whose key is not greater
InsertByKey(x, s) ==
    LET n == Cardinality({i \in 1..Len(s) : s[i][1] <= x[1]})
    IN  SubSeq(s, 1, n) \o <<x>> \o SubSeq(s, n + 1, Len(s))

RECURSIVE SortPairs(_)
SortPairs(s) ==
    IF s = <<>> THEN <<>>
    ELSE InsertByKey(s[Len(s)], SortPairs(SubSeq(s, 1, Len(s) - 1)))

SortByShardKey(s) ==
    LET keyed == [i \in 1..Len(s) |-> <<ShardKey(s[i]), s[i]>>]
        sorted == SortPairs(keyed)
    IN  [i \in 1..Len(s) |-> sorted[i][2]]

Found(p) == [ok |-> TRUE, path |-> p, err |-> "none"]
Raised(e) == [ok |-> FALSE, path |-> <<>>, err |-> e]

\* one with the first candidate taken instead of the error raised
one_TakesFirst(order) ==
    IF Len(order) = 0 THEN Raised("ValueError: too few items")
    ELSE Found(order[1])

\* more_itertools.one over the candidates in enumeration order (models.py:50)
one(order) ==
    IF Len(order) = 0 THEN Raised("ValueError: too few items")
    ELSE IF Len(order) > 1 THEN Raised("ValueError: too many items")
    ELSE Found(order[1])

\* FirstShard with the sort left out
FirstShard_Unsorted(multi) == multi[1]

\* models.py:44-47
FirstShard(multi) == SortByShardKey(multi)[1]

\* models.py:32-50, order being the order in which the set candidates is
\* enumerated
Disambiguate(order) ==
    IF order = <<>> THEN Raised("ValueError: No entrypoint found")
    ELSE LET multi == SelectSeq(order, IsMultiFile)
         IN  IF multi # <<>> THEN Found(FirstShard(multi))
             ELSE one(order)

\* the orders in which a set of n elements may be enumerated: the
\* permutations of 1..n
RECURSIVE Perms(_)
Perms(I) ==
    IF I = {} THEN {<<>>}
    ELSE UNION {{<<x>> \o o : o \in Perms(I \ {x})} : x \in I}

Orders(S) == Perms(1..Cardinality(S))

RECURSIVE SetToSeq(_)
SetToSeq(S) ==
    IF S = {} THEN <<>>
    ELSE LET x == CHOOSE y \in S : TRUE
         IN  <<x>> \o SetToSeq(S \ {x})

\* the elements of S in the order o
Enumerate(S, o) ==
    LET base == SetToSeq(S)
    IN  [i \in 1..Len(o) |-> base[o[i]]]

\* what a call may return or raise: one outcome for each order in which the
\* set candidates may be enumerated
find_gguf_entrypoint(files, include) ==
    LET candidates == Candidates(files, include)
    IN  {Disambiguate(Enumerate(candidates, o)) : o \in Orders(candidates)}

\* Path.stem: the name without its last suffix
stem(p) ==
    LET n == basename(p)
        dots == {i \in 2..Len(n) : n[i] = "."}
    IN  IF dots = {} THEN n
        ELSE SubSeq(n, 1, (CHOOSE i \in dots : \A k \in dots : k <= i) - 1)

\* models.py:10-14
abbreviate_entrypoint_name(p) ==
    [i \in 1..Len(stem(p)) |-> IF stem(p)[i] = "_" THEN "-" ELSE stem(p)[i]]

(***************************************************************************)
(* find_gguf_entrypoint run on its own, on every repository directory and  *)
(* include argument of the bounds.                                         *)
(***************************************************************************)
NoResult == [ok |-> FALSE, path |-> <<>>, err |-> "pending"]
NoCode == 0 - 1

\* serve before it starts
ServeIdle ==
    /\ pc = "idle"
    /\ variant = "baremetal"
    /\ detach = FALSE
    /\ api_token = "None"
    /\ binary_exists = TRUE
    /\ next_model = 1
    /\ models = {}
    /\ warned = FALSE
    /\ nginx_auth = FALSE
    /\ proc = [c \in {"nginx", "swap"} |-> [state |-> "none", code |-> NoCode]]
    /\ terminate_calls = <<>>
    /\ terminate_failed = {}
    /\ waited = FALSE
    /\ wait_result = NoCode
    /\ interrupts = 0
    /\ handler_entered = FALSE
    /\ error = "none"
    /\ exit_code = NoCode

ResolveIdle ==
    /\ rpc = "idle"
    /\ rfiles = {}
    /\ rinclude = IncNone
    /\ rcandidates = {}
    /\ rresult = NoResult

ResolveInit ==
    /\ rpc = "start"
    /\ rfiles \in Repos
    /\ rinclude \in Includes
    /\ rcandidates = {}
    /\ rresult = NoResult
    /\ ServeIdle
    /\ OthersIdle

\* models.py:20-25
Glob ==
    /\ rpc = "start"
    /\ rcandidates' = Candidates(rfiles, rinclude)
    /\ rpc' = "globbed"
    /\ UNCHANGED <<rfiles, rinclude, rresult, svars, xvars>>

\* models.py:32-50
Select ==
    /\ rpc = "globbed"
    /\ \E o \in Orders(rcandidates) :
         rresult' = Disambiguate(Enumerate(rcandidates, o))
    /\ rpc' = "done"
    /\ UNCHANGED <<rfiles, rinclude, rcandidates, svars, xvars>>

ResolveNext == Glob \/ Select

ResolveSpec == ResolveInit /\ [][ResolveNext]_vars

(***************************************************************************)
(* serve: baremetal/serve.py:37-93 and modal/serve.py:126-146              *)
(***************************************************************************)
Children == {"nginx", "swap"}

\* exit codes of a child that ends of its own accord
ExitCodes == {0, 1}

\* Popen.returncode of a child ended by SIGTERM
SigTermCode == 0 - 15

\* the include argument of the gguf() call of the i-th add_model of
\* prep_common_models (models.py:155, 83, 98, 130)
ModelInclude(i) ==
    CASE i = 1 -> IncStr(P_q4)
      [] i = 2 -> IncList(<<P_dots>>)
      [] i = 3 -> IncList(<<P_kimi>>)
      [] i = 4 -> IncList(<<P_mistral>>)

\* the number of add_model calls of prep_common_models (models.py:151-173)
NumModels == 4

\* what snapshot_download may leave in the directory it returns
ServeRepos ==
    {{}, {F_q4}, {F_q4, F_q8}, {F_readme}, {F_dots1, F_dots2, F_dots3},
     {F_kimi1, F_kimi2}, {F_mistral}}

\* the values of os.environ.get("API_TOKEN", None): unset, empty, set
Tokens == {"None", "", "secret"}

ServeInit ==
    /\ pc = "config"
    /\ variant \in {"baremetal", "modal"}
    /\ detach \in BOOLEAN
    \* modal/serve.py has no detach option: it never waits (modal/serve.py:139-146)
    /\ variant = "modal" => detach
    /\ api_token \in Tokens
    /\ binary_exists \in BOOLEAN
    /\ next_model = 1
    /\ models = {}
    /\ warned = FALSE
    /\ nginx_auth = FALSE
    /\ proc = [c \in Children |-> [state |-> "none", code |-> NoCode]]
    /\ terminate_calls = <<>>
    /\ terminate_failed = {}
    /\ waited = FALSE
    /\ wait_result = NoCode
    /\ interrupts = 0
    /\ handler_entered = FALSE
    /\ error = "none"
    /\ exit_code = NoCode
    /\ ResolveIdle
    /\ OthersIdle

\* an exception leaves serve: the process ends with a non-zero exit code
Raise(e) ==
    /\ pc' = "raised"
    /\ error' = e
    /\ exit_code' = 1

\* PrepModel with a model that fails skipped and the others served
PrepModel_SkipsFailed ==
    /\ pc = "config"
    /\ next_model <= NumModels
    /\ \E fetched \in BOOLEAN, model_exists \in BOOLEAN, files \in ServeRepos :
         \E r \in find_gguf_entrypoint(files, ModelInclude(next_model)) :
            /\ next_model' = next_model + 1
            /\ IF ~fetched
               THEN error' = "snapshot_download failed" /\ UNCHANGED models
               ELSE IF ~r.ok
               THEN error' = r.err /\ UNCHANGED models
               ELSE IF ~binary_exists
               THEN error' = "ValueError: Binary does not exist" /\ UNCHANGED models
               ELSE IF ~model_exists
               THEN error' = "ValueError: Model does not exist" /\ UNCHANGED models
               ELSE /\ models' = models \cup {abbreviate_entrypoint_name(r.path)}
                    /\ UNCHANGED error
    /\ UNCHANGED <<pc, exit_code, variant, detach, api_token, binary_exists, warned,
                   nginx_auth, proc, terminate_calls, terminate_failed, waited,
                   wait_result, interrupts, handler_entered, rvars, xvars>>

\* one add_model(gguf(...).with_params(...).build()) of prep_common_models
\* (models.py:151-176): gguf (models.py:53-73) downloads, resolves the
\* entrypoint and names the model, build (llama_cpp.py:60-70) raises when the
\* binary or the model file (a link into the cache, which may dangle) does
\* not exist.  Any exception leaves get_config and serve
\* (baremetal/serve.py:67, modal/serve.py:127)
PrepModel ==
    /\ pc = "config"
    /\ next_model <= NumModels
    /\ \E fetched \in BOOLEAN, model_exists \in BOOLEAN, files \in ServeRepos :
         \E r \in find_gguf_entrypoint(files, ModelInclude(next_model)) :
            IF ~fetched
            THEN Raise("snapshot_download failed") /\ UNCHANGED <<models, next_model>>
            ELSE IF ~r.ok
            THEN Raise(r.err) /\ UNCHANGED <<models, next_model>>
            ELSE IF ~binary_exists
            THEN Raise("ValueError: Binary does not exist") /\ UNCHANGED <<models, next_model>>
            ELSE IF ~model_exists
            THEN Raise("ValueError: Model does not exist") /\ UNCHANGED <<models, next_model>>
            ELSE /\ models' = models \cup {abbreviate_entrypoint_name(r.path)}
                 /\ next_model' = next_model + 1
                 /\ UNCHANGED <<pc, error, exit_code>>
    /\ UNCHANGED <<variant, detach, api_token, binary_exists, warned, nginx_auth,
                   proc, terminate_calls, terminate_failed, waited, wait_result,
                   interrupts, handler_entered, rvars, xvars>>

\* get_config returns (baremetal/serve.py:33), prep returns (modal/serve.py:105-109)
ConfigDone ==
    /\ pc = "config"
    /\ next_model > NumModels
    /\ pc' = "env"
    /\ UNCHANGED <<variant, detach, api_token, binary_exists, next_model, models,
                   warned, nginx_auth, proc, terminate_calls, terminate_failed,
                   waited, wait_result, interrupts, handler_entered, error, exit_code, rvars, xvars>>

\* ReadEnv with the supervisor started before the reverse proxy
ReadEnv_SkipsProxy ==
    /\ pc = "env"
    /\ warned' = (api_token = "None")
    /\ pc' = "start_swap"
    /\ UNCHANGED <<variant, detach, api_token, binary_exists, next_model, models,
                   nginx_auth, proc, terminate_calls, terminate_failed, waited,
                   wait_result, interrupts, handler_entered, error, exit_code, rvars, xvars>>

\* baremetal/serve.py:73-77, modal/serve.py:130-137
ReadEnv ==
    /\ pc = "env"
    /\ warned' = (api_token = "None")
    /\ pc' = "start_nginx"
    /\ UNCHANGED <<variant, detach, api_token, binary_exists, next_model, models,
                   nginx_auth, proc, terminate_calls, terminate_failed, waited,
                   wait_result, interrupts, handler_entered, error, exit_code, rvars, xvars>>

\* "if api_token" (nginx.py:40): None and the empty string are falsy
Truthy(token) == token \notin {"None", ""}

\* start_nginx_reverse_proxy (nginx.py:24-97), called at baremetal/serve.py:78
\* and modal/serve.py:143-145; subprocess.Popen raises when nginx cannot be
\* executed
StartNginx ==
    /\ pc = "start_nginx"
    /\ \E started \in BOOLEAN :
         IF started
         THEN /\ nginx_auth' = Truthy(api_token)
              /\ proc' = [proc EXCEPT !["nginx"].state = "running"]
              /\ pc' = "start_swap"
              /\ UNCHANGED <<error, exit_code>>
         ELSE /\ Raise("OSError: nginx")
              /\ UNCHANGED <<nginx_auth, proc>>
    /\ UNCHANGED <<variant, detach, api_token, binary_exists, next_model, models,
                   warned, terminate_calls, terminate_failed, waited, wait_result,
                   interrupts, handler_entered, rvars, xvars>>

\* StartSwap with the reverse proxy terminated when the launch fails
StartSwap_StopsProxy ==
    /\ pc = "start_swap"
    /\ \E started \in BOOLEAN :
         IF started
         THEN /\ proc' = [proc EXCEPT !["swap"].state = "running"]
              /\ pc' = IF variant = "modal" THEN "returned" ELSE "detach_check"
              /\ exit_code' = IF variant = "modal" THEN 0 ELSE exit_code
              /\ UNCHANGED error
         ELSE /\ error' = "OSError: llama-swap"
              /\ pc' = "term_nginx"
              /\ UNCHANGED <<proc, exit_code>>
    /\ UNCHANGED <<variant, detach, api_token, binary_exists, next_model, models,
                   warned, nginx_auth, terminate_calls, terminate_failed, waited,
                   wait_result, interrupts, handler_entered, rvars, xvars>>

\* start_llama_swap_server (llama_swap.py:80-102), called at
\* baremetal/serve.py:79 and modal/serve.py:146
StartSwap ==
    /\ pc = "start_swap"
    /\ \E started \in BOOLEAN :
         IF started
         THEN /\ proc' = [proc EXCEPT !["swap"].state = "running"]
              /\ pc' = IF variant = "modal" THEN "returned" ELSE "detach_check"
              /\ exit_code' = IF variant = "modal" THEN 0 ELSE exit_code
              /\ UNCHANGED error
         ELSE /\ Raise("OSError: llama-swap")
              /\ UNCHANGED proc
    /\ UNCHANGED <<variant, detach, api_token, binary_exists, next_model, models,
                   warned, nginx_auth, terminate_calls, terminate_failed, waited,
                   wait_result, interrupts, handler_entered, rvars, xvars>>

\* DetachCheck with the detach option ignored
DetachCheck_IgnoresDetach ==
    /\ pc = "detach_check"
    /\ pc' = "wait"
    /\ UNCHANGED <<variant, detach, api_token, binary_exists, next_model, models,
                   warned, nginx_auth, proc, terminate_calls, terminate_failed,
                   waited, wait_result, interrupts, handler_entered, error,
                   exit_code, rvars, xvars>>

\* baremetal/serve.py:80-82
DetachCheck ==
    /\ pc = "detach_check"
    /\ IF detach
       THEN pc' = "returned" /\ exit_code' = 0
       ELSE pc' = "wait" /\ UNCHANGED exit_code
    /\ UNCHANGED <<variant, detach, api_token, binary_exists, next_model, models,
                   warned, nginx_auth, proc, terminate_calls, terminate_failed,
                   waited, wait_result, interrupts, handler_entered, error, rvars, xvars>>

\* baremetal/serve.py:85-87: serve enters the try block and calls wait()
EnterWait ==
    /\ pc = "wait"
    /\ waited' = TRUE
    /\ pc' = "waiting"
    /\ UNCHANGED <<variant, detach, api_token, binary_exists, next_model, models,
                   warned, nginx_auth, proc, terminate_calls, terminate_failed,
                   wait_result, interrupts, handler_entered, error, exit_code, rvars, xvars>>

\* WaitReturns followed by the termination of the reverse proxy
WaitReturns_ThenTerminates ==
    /\ pc = "waiting"
    /\ proc["swap"].state # "running"
    /\ wait_result' = proc["swap"].code
    /\ pc' = "term_nginx"
    /\ UNCHANGED <<variant, detach, api_token, binary_exists, next_model, models,
                   warned, nginx_auth, proc, terminate_calls, terminate_failed,
                   waited, interrupts, handler_entered, error, exit_code, rvars, xvars>>

\* baremetal/serve.py:87: wait() returns the exit code of the supervisor, which
\* serve drops
WaitReturns ==
    /\ pc = "waiting"
    /\ proc["swap"].state # "running"
    /\ wait_result' = proc["swap"].code
    /\ pc' = "exiting"
    /\ UNCHANGED <<variant, detach, api_token, binary_exists, next_model, models,
                   warned, nginx_auth, proc, terminate_calls, terminate_failed,
                   waited, interrupts, handler_entered, error, exit_code, rvars, xvars>>

\* Popen.terminate() on child c: SIGTERM to a running child, nothing to one
\* that has ended; os.kill may raise
Terminate(c, after) ==
    /\ terminate_calls' = Append(terminate_calls, c)
    /\ \E ok \in BOOLEAN :
         IF ok
         THEN /\ proc' = IF proc[c].state = "running"
                         THEN [proc EXCEPT ![c] = [state |-> "terminated",
                                                   code |-> SigTermCode]]
                         ELSE proc
              /\ pc' = after
              /\ UNCHANGED <<terminate_failed, error, exit_code>>
         ELSE /\ terminate_failed' = terminate_failed \cup {c}
              /\ Raise("OSError: terminate")
              /\ UNCHANGED proc

\* baremetal/serve.py:89-90
TerminateSwap ==
    /\ pc = "term_swap"
    /\ Terminate("swap", "term_nginx")
    /\ UNCHANGED <<variant, detach, api_token, binary_exists, next_model, models,
                   warned, nginx_auth, waited, wait_result, interrupts, handler_entered, rvars, xvars>>

\* baremetal/serve.py:91-92
TerminateNginx ==
    /\ pc = "term_nginx"
    /\ Terminate("nginx", "exiting")
    /\ UNCHANGED <<variant, detach, api_token, binary_exists, next_model, models,
                   warned, nginx_auth, waited, wait_result, interrupts, handler_entered, rvars, xvars>>

\* baremetal/serve.py:93: serve returns, the process exits with code 0
Exit ==
    /\ pc = "exiting"
    /\ pc' = "returned"
    /\ exit_code' = 0
    /\ UNCHANGED <<variant, detach, api_token, binary_exists, next_model, models,
                   warned, nginx_auth, proc, terminate_calls, terminate_failed,
                   waited, wait_result, interrupts, handler_entered, error, rvars, xvars>>

\* a KeyboardInterrupt is delivered to serve: inside the try block
\* (baremetal/serve.py:85-87) the handler of line 88 runs, anywhere else,
\* the handler itself included, it leaves serve
Interrupt ==
    /\ pc \notin {"idle", "returned", "raised"}
    /\ interrupts' = interrupts + 1
    /\ IF pc \in {"wait", "waiting"}
       THEN pc' = "term_swap" /\ handler_entered' = TRUE /\ UNCHANGED <<error, exit_code>>
       ELSE Raise("KeyboardInterrupt") /\ UNCHANGED handler_entered
    /\ UNCHANGED <<variant, detach, api_token, binary_exists, next_model, models,
                   warned, nginx_auth, proc, terminate_calls, terminate_failed,
                   waited, wait_result, rvars, xvars>>

\* a child process ends of its own accord
ChildExits ==
    /\ \E c \in Children, code \in ExitCodes :
         /\ proc[c].state = "running"
         /\ proc' = [proc EXCEPT ![c] = [state |-> "exited", code |-> code]]
    /\ UNCHANGED <<pc, variant, detach, api_token, binary_exists, next_model,
                   models, warned, nginx_auth, terminate_calls, terminate_failed,
                   waited, wait_result, interrupts, handler_entered, error, exit_code, rvars, xvars>>

Next ==
    \/ PrepModel
    \/ ConfigDone
    \/ ReadEnv
    \/ StartNginx
    \/ StartSwap
    \/ DetachCheck
    \/ EnterWait
    \/ WaitReturns
    \/ TerminateSwap
    \/ TerminateNginx
    \/ Exit
    \/ Interrupt
    \/ ChildExits

Spec == ServeInit /\ [][Next]_vars

(***************************************************************************)
(* Claims about find_gguf_entrypoint (ResolveSpec)                         *)
(***************************************************************************)
\* the include patterns as the caller wrote them: a str is one pattern
CallerPatterns(include) ==
    IF include.kind = "none" THEN {P_gguf}
    ELSE {include.val[i] : i \in 1..Len(include.val)}

\* the files below repo_dir that match at least one of the caller's patterns
MatchingFiles(files, include) ==
    {f \in files : \E p \in CallerPatterns(include) : RMatch(p, f)}

\* the first index of the run of digits that ends at j (j + 1: no digit at j)
RECURSIVE DigitRunStart(_, _)
DigitRunStart(n, j) ==
    IF j >= 1 /\ IsDigit(n[j]) THEN DigitRunStart(n, j - 1) ELSE j + 1

\* where the N of a trailing "<N>-of-<M>.gguf" lies in the file name n, read
\* from the end of the name: <<first, last>>, or <<>> when n carries no marker
MarkerSpan(n) ==
    LET e == Len(n) - Len(S_gguf)
        m0 == DigitRunStart(n, e)
        n1 == m0 - Len(S_of) - 1
        n0 == DigitRunStart(n, n1)
    IN  IF /\ e >= 1
           /\ LitAt(n, e + 1, S_gguf)
           /\ m0 <= e
           /\ n1 >= 1
           /\ LitAt(n, n1 + 1, S_of)
           /\ n0 <= n1
        THEN <<n0, n1>>
        ELSE <<>>

CarriesMarker(p) == MarkerSpan(basename(p)) # <<>>

MarkerN(p) ==
    LET n == basename(p)
    IN  ToInt(SubSeq(n, MarkerSpan(n)[1], MarkerSpan(n)[2]))

Sharded(S) == {c \in S : CarriesMarker(c)}

\* C7: the candidate set is exactly the set of files matching at least one of
\* the caller's include patterns (a list of patterns, a single pattern string,
\* or *.gguf when include is absent)
C7_CandidatesAreMatchingFiles ==
    rpc \in {"globbed", "done"} => rcandidates = MatchingFiles(rfiles, rinclude)

\* C8: when at least one candidate carries an N-of-M shard marker, the call
\* returns a sharded candidate whose N is the lowest N of the sharded
\* candidates, whatever the enumeration order and the other candidates
C8_LowestShard ==
    (rpc = "done" /\ Sharded(rcandidates) # {}) =>
        /\ rresult.ok
        /\ rresult.path \in Sharded(rcandidates)
        /\ \A c \in Sharded(rcandidates) : MarkerN(rresult.path) <= MarkerN(c)

C8_Witness ==
    /\ rpc = "done"
    /\ {F_dots2, F_dots3, F_dots1, F_q4} \subseteq rcandidates
    /\ rresult = Found(F_dots1)

C10_NoMatchFails ==
    (rpc = "done" /\ MatchingFiles(rfiles, rinclude) = {}) =>
        rresult = Raised("ValueError: No entrypoint found")

(***************************************************************************)
(* Claims about serve (Spec)                                               *)
(***************************************************************************)
Ended == pc \in {"returned", "raised"}

TerminateCalled(c) == \E i \in 1..Len(terminate_calls) : terminate_calls[i] = c

Spawned(c) == proc[c].state # "none"

\* the exceptions of configuration generation and resolution
ConfigErrors ==
    {"snapshot_download failed", "ValueError: No entrypoint found",
     "ValueError: too many items", "ValueError: Binary does not exist",
     "ValueError: Model does not exist"}

\* C1: when terminating the supervisor raises in the interrupt handler, serve
\* still calls terminate on the reverse proxy before it ends
C1_ProxyTerminationAttempted ==
    (Ended /\ handler_entered /\ "swap" \in terminate_failed) =>
        TerminateCalled("nginx")

\* C2: when wait() returns a non-zero exit code of the supervisor, serve ends
\* with a non-zero exit code
C2_ExitCodePropagated ==
    (Ended /\ waited /\ wait_result # NoCode /\ wait_result # 0) =>
        exit_code # 0

\* C3: the supervisor is never spawned while the reverse proxy has not been
\* spawned
C3_ProxyBeforeSupervisor ==
    Spawned("swap") => Spawned("nginx")

C3_Witness ==
    /\ pc = "detach_check"
    /\ proc["swap"].state = "running"
    /\ proc["nginx"].state = "running"

\* C4: one interrupt received while serve waits on the supervisor makes serve
\* send the termination signal to the supervisor first and to the reverse
\* proxy second, and the reverse proxy is never signalled before the supervisor
C4_SupervisorThenProxy ==
    /\ \A i \in 1..Len(terminate_calls) :
          terminate_calls[i] = "nginx" =>
              \E j \in 1..(i - 1) : terminate_calls[j] = "swap"
    /\ (Ended /\ handler_entered /\ interrupts = 1) =>
          terminate_calls = <<"swap", "nginx">>

\* C5: when resolving or building one of the models fails, the error leaves
\* serve and no child process is ever spawned
C5_ConfigFailureAborts ==
    error \in ConfigErrors =>
        /\ pc = "raised"
        /\ exit_code # 0
        /\ \A c \in Children : ~Spawned(c)

C5_Witness ==
    /\ pc = "raised"
    /\ error = "ValueError: No entrypoint found"
    /\ next_model = 3
    /\ Cardinality(models) = 2
    /\ \A c \in Children : ~Spawned(c)

\* C6: in detached mode serve returns with both children spawned, without
\* having waited on the supervisor and without having called terminate; it has
\* stopped neither child (each is running unless it ended of its own accord)
C6_DetachedLeavesChildren ==
    (pc = "returned" /\ detach) =>
        /\ ~waited
        /\ terminate_calls = <<>>
        /\ \A c \in Children : proc[c].state \in {"running", "exited"}
        /\ exit_code = 0

C6_Witness ==
    /\ pc = "returned"
    /\ detach
    /\ variant = "baremetal"
    /\ \A c \in Children : proc[c].state = "running"

\* C11: resolution is deterministic: for a fixed set of matched files the call
\* returns the same file, or raises the same error, whatever the order in
\* which the candidates are enumerated
C11_Deterministic ==
    rpc = "done" =>
        \A o \in Orders(rcandidates) :
            Disambiguate(Enumerate(rcandidates, o)) = rresult

(***************************************************************************)
(* LlamaSwapModel and LlamaSwapConfig (llama_swap.py)                      *)
(*                                                                         *)
(* An optional field is <<>> for None and <<v>> for the value v.  A        *)
(* timedelta is its length in milliseconds.  A dict is a function from     *)
(* its keys; the dict of the env field is a sequence of <<key, value>>     *)
(* pairs in insertion order, keys and values being character tuples.       *)
(***************************************************************************)
None == <<>>
Some(v) == <<v>>

LlamaSwapModel(name, cmd, aliases, ttl, check_endpoint, env, unlisted) ==
    [name |-> name, cmd |-> cmd, aliases |-> aliases, ttl |-> ttl,
     check_endpoint |-> check_endpoint, env |-> env, unlisted |-> unlisted]

\* int(td.total_seconds()): the whole seconds of a timedelta, truncated
\* towards zero
total_seconds_int(ms) ==
    IF ms >= 0 THEN ms \div 1000 ELSE 0 - ((0 - ms) \div 1000)

\* [f"{k}={v}" for k, v in env.items()]
EnvList(env) == [i \in 1..Len(env) |-> env[i][1] \o <<"=">> \o env[i][2]]

\* variant of to_dict that tests the fields for truth instead of "is not None"
to_dict_Truthiness(m) ==
    LET keys == {"cmd"}
                \cup (IF m.aliases \notin {None, Some(<<>>)} THEN {"aliases"} ELSE {})
                \cup (IF m.ttl \notin {None, Some(0)} THEN {"ttl"} ELSE {})
                \cup (IF m.check_endpoint \notin {None, Some("")} THEN {"checkEndpoint"} ELSE {})
                \cup (IF m.env \notin {None, Some(<<>>)} THEN {"env"} ELSE {})
                \cup (IF m.unlisted \notin {None, Some(FALSE)} THEN {"unlisted"} ELSE {})
    IN [k \in keys |->
           CASE k = "cmd" -> m.cmd
             [] k = "aliases" -> m.aliases[1]
             [] k = "ttl" -> total_seconds_int(m.ttl[1])
             [] k = "checkEndpoint" -> m.check_endpoint[1]
             [] k = "env" -> EnvList(m.env[1])
             [] k = "unlisted" -> m.unlisted[1]]

\* LlamaSwapModel.to_dict
to_dict(m) ==
    LET keys == {"cmd"}
                \cup (IF m.aliases # None THEN {"aliases"} ELSE {})
                \cup (IF m.ttl # None THEN {"ttl"} ELSE {})
                \cup (IF m.check_endpoint # None THEN {"checkEndpoint"} ELSE {})
                \cup (IF m.env # None THEN {"env"} ELSE {})
                \cup (IF m.unlisted # None THEN {"unlisted"} ELSE {})
    IN [k \in keys |->
           CASE k = "cmd" -> m.cmd
             [] k = "aliases" -> m.aliases[1]
             [] k = "ttl" -> total_seconds_int(m.ttl[1])
             [] k = "checkEndpoint" -> m.check_endpoint[1]
             [] k = "env" -> EnvList(m.env[1])
             [] k = "unlisted" -> m.unlisted[1]]

\* timedelta(minutes=5), the default health check timeout
DefaultHealthCheckTimeout == 5 * 60 * 1000

\* LlamaSwapConfig.__init__ with the default timeout and log level
LlamaSwapConfigInit(listen_port) ==
    [listen_port |-> listen_port,
     health_check_timeout |-> DefaultHealthCheckTimeout,
     log_level |-> "debug",
     models |-> EmptyMap]

\* d[k] = v on a dict
SetItem(d, k, v) == [n \in DOMAIN d \cup {k} |-> IF n = k THEN v ELSE d[n]]

\* variant of add_model that keeps an entry already stored under the name
add_model_KeepsFirst(heap, self, model) ==
    [heap |-> [heap EXCEPT ![self].models =
                   IF model.name \in DOMAIN @ THEN @ ELSE SetItem(@, model.name, model)],
     ret |-> self]

\* LlamaSwapConfig.add_model: stores the entry under its name in the object
\* itself and returns that object
add_model(heap, self, model) ==
    [heap |-> [heap EXCEPT ![self].models = SetItem(@, model.name, model)],
     ret |-> self]

\* LlamaSwapConfig.to_yaml: the document that yaml.dump writes, as the
\* mapping a YAML parser reads back from it
to_yaml(cfg) ==
    [healthCheckTimeout |-> total_seconds_int(cfg.health_check_timeout),
     logLevel |-> cfg.log_level,
     models |-> [n \in DOMAIN cfg.models |-> to_dict(cfg.models[n])]]

(***************************************************************************)
(* LlamaCppConfig (llama_cpp.py)                                           *)
(*                                                                         *)
(* Strings and paths are tuples of characters.  A flag value is [t, v]:    *)
(* t its Python type and v the characters of str(value).  The flag dict    *)
(* is a sequence of <<key, value>> pairs in insertion order.  A heap slot  *)
(* is None when free and Some(object) when in use.                         *)
(***************************************************************************)
Py_None == [t |-> "NoneType", v |-> <<"N", "o", "n", "e">>]
Py_True == [t |-> "bool", v |-> <<"T", "r", "u", "e">>]
Py_False == [t |-> "bool", v |-> <<"F", "a", "l", "s", "e">>]
Py_int(digits) == [t |-> "int", v |-> digits]
Py_Path(chars) == [t |-> "Path", v |-> chars]

\* concatenation of a sequence of strings
RECURSIVE Join(_)
Join(parts) == IF parts = <<>> THEN <<>> ELSE Head(parts) \o Join(Tail(parts))

\* k.replace("_", "-")
ReplaceUnderscore(k) == [i \in 1..Len(k) |-> IF k[i] = "_" THEN "-" ELSE k[i]]

\* the characters shlex.quote leaves unquoted: [a-zA-Z0-9_@%+=:,./-]
SafeChars ==
    {"a", "b", "c", "d", "e", "f", "g", "h", "i", "j", "k", "l", "m", "n", "o",
     "p", "q", "r", "s", "t", "u", "v", "w", "x", "y", "z",
     "A", "B", "C", "D", "E", "F", "G", "H", "I", "J", "K", "L", "M", "N", "O",
     "P", "Q", "R", "S", "T", "U", "V", "W", "X", "Y", "Z",
     "0", "1", "2", "3", "4", "5", "6", "7", "8", "9",
     "_", "@", "%", "+", "=", ":", ",", ".", "/", "-"}

\* shlex.quote
shlex_quote(s) ==
    IF s = <<>> THEN <<"'", "'">>
    ELSE IF \A i \in 1..Len(s) : s[i] \in SafeChars THEN s
    ELSE <<"'">>
         \o Join([i \in 1..Len(s) |->
                     IF s[i] = "'" THEN <<"'", "\"", "'", "\"", "'">> ELSE <<s[i]>>])
         \o <<"'">>

\* the working directory of the process
Cwd == <<"/", "w">>

\* str(v.resolve()) for a path without symbolic links and dot segments
resolve(p) == IF p # <<>> /\ p[1] = "/" THEN p ELSE Cwd \o <<"/">> \o p

\* LlamaCppConfig.__init__ ("params or {}" leaves an empty dict empty)
LlamaCppConfigInit(name, binary, model, params) ==
    [name |-> name, binary |-> binary, model |-> model, params |-> params]

\* position of key k in dict d, 0 when absent
KeyIndex(d, k) ==
    IF \E i \in 1..Len(d) : d[i][1] = k
    THEN CHOOSE i \in 1..Len(d) : d[i][1] = k
    ELSE 0

\* d.update(kw): a key already present keeps its position and takes the new
\* value, a new key goes to the end
RECURSIVE Update(_, _)
Update(d, kw) ==
    IF kw = <<>> THEN d
    ELSE LET k == Head(kw)[1]
             i == KeyIndex(d, k)
         IN  Update(IF i = 0 THEN Append(d, Head(kw)) ELSE [d EXCEPT ![i] = Head(kw)],
                    Tail(kw))

\* {k: v for k, v in d.items() if k not in param_names}
RECURSIVE Without(_, _)
Without(d, names) ==
    IF d = <<>> THEN <<>>
    ELSE (IF Head(d)[1] \in names THEN <<>> ELSE <<Head(d)>>) \o Without(Tail(d), names)

\* identities of heap objects
Ids == 1..3

\* an identity not in use
Alloc(heap) == CHOOSE i \in Ids : heap[i] = None

\* variant of with_params that updates the flags of the receiver itself
with_params_InPlace(heap, self, params) ==
    [heap |-> [heap EXCEPT ![self] =
                  Some([heap[self][1] EXCEPT !.params = Update(@, params)])],
     ret |-> self]

\* LlamaCppConfig.with_params: a new object holding an updated copy of the flags
with_params(heap, self, params) ==
    LET obj == heap[self][1]
        new == LlamaCppConfigInit(obj.name, obj.binary, obj.model,
                                  Update(obj.params, params))
        id == Alloc(heap)
    IN  [heap |-> [heap EXCEPT ![id] = Some(new)], ret |-> id]

\* LlamaCppConfig.without_params: a new object holding the remaining flags
without_params(heap, self, param_names) ==
    LET obj == heap[self][1]
        new == LlamaCppConfigInit(obj.name, obj.binary, obj.model,
                                  Without(obj.params, param_names))
        id == Alloc(heap)
    IN  [heap |-> [heap EXCEPT ![id] = Some(new)], ret |-> id]

\* variant of the flag text that renders a bool like any other value
FlagText_BoolAsValue(k, v) ==
    LET flag == <<" ", "-", "-">> \o ReplaceUnderscore(k) IN
    IF v.t = "NoneType" THEN flag
    ELSE IF v.t = "Path" THEN flag \o <<" ">> \o shlex_quote(resolve(v.v))
    ELSE flag \o <<" ">> \o v.v

\* the text one flag appends to the command line (llama_cpp.py:76-90)
FlagText(k, v) ==
    LET flag == <<" ", "-", "-">> \o ReplaceUnderscore(k) IN
    IF v.t = "NoneType" THEN flag
    ELSE IF v.t = "bool" THEN (IF v = Py_True THEN flag ELSE <<>>)
    ELSE IF v.t = "Path" THEN flag \o <<" ">> \o shlex_quote(resolve(v.v))
    ELSE flag \o <<" ">> \o v.v

\* quoted_cmdline of llama_cpp.py:72-90
cmdline(obj) ==
    shlex_quote(obj.binary) \o <<" ", "-", "m", " ">> \o shlex_quote(obj.model)
    \o Join([i \in 1..Len(obj.params) |-> FlagText(obj.params[i][1], obj.params[i][2])])

Returned(m) == [ok |-> TRUE, ret |-> Some(m), err |-> <<>>]
ValueError(what, path) == [ok |-> FALSE, ret |-> None, err |-> <<"ValueError", what, path>>]

\* variant of build that tests the model path before the binary
build_ModelFirst(obj, exists) ==
    IF obj.model \notin exists THEN ValueError("Model", obj.model)
    ELSE IF obj.binary \notin exists THEN ValueError("Binary", obj.binary)
    ELSE Returned(LlamaSwapModel(obj.name, cmdline(obj), None, None, None, None, None))

\* LlamaCppConfig.build, exists being the paths that exist
build(obj, exists) ==
    IF obj.binary \notin exists THEN ValueError("Binary", obj.binary)
    ELSE IF obj.model \notin exists THEN ValueError("Model", obj.model)
    ELSE Returned(LlamaSwapModel(obj.name, cmdline(obj), None, None, None, None, None))

(***************************************************************************)
(* Inputs of the LlamaCppConfig component                                  *)
(***************************************************************************)
K_ngl == <<"n", "_", "g", "p", "u", "_", "l", "a", "y", "e", "r", "s">>
K_jinja == <<"j", "i", "n", "j", "a">>
K_mmproj == <<"m", "m", "p", "r", "o", "j">>
FlagKeys == {K_ngl, K_jinja, K_mmproj}

B_server == <<"/", "b", "/", "l", "l", "a", "m", "a">>
M_plain == <<"/", "m", "/", "q", "4", ".", "g", "g", "u", "f">>
V_99 == Py_int(<<"9", "9">>)
V_proj == Py_Path(<<"m", "m", " ", "1">>)

\* the values a flag is given
FlagValues ==
    [k \in FlagKeys |->
        IF k = K_ngl THEN {Py_None, V_99}
        ELSE IF k = K_jinja THEN {Py_None, Py_True, Py_False}
        ELSE {Py_None, V_proj}]

\* the flags a call sets
FlagInputs == UNION {{<<k, v>> : v \in FlagValues[k]} : k \in FlagKeys}

\* keyword arguments of with_params: one flag, or two
KwargsInputs ==
    {<<p>> : p \in FlagInputs} \cup {<< <<K_jinja, Py_True>>, <<K_ngl, Py_None>> >>}

\* arguments of without_params
NamesInputs == {{K_ngl}, {K_jinja}, {K_mmproj}, {K_ngl, K_jinja}, {}}

\* the base configurations constructed
BaseConfigs ==
    {LlamaCppConfigInit("m1", B_server, M_plain, <<>>),
     LlamaCppConfigInit("m1", B_server, M_plain, << <<K_ngl, V_99>>, <<K_jinja, Py_True>> >>),
     LlamaCppConfigInit("m2", B_server, M_plain,
                        << <<K_jinja, Py_False>>, <<K_mmproj, V_proj>>, <<K_ngl, Py_None>> >>)}

(***************************************************************************)
(* Inputs of the configuration component                                   *)
(***************************************************************************)
OptionalFields == {"aliases", "ttl", "check_endpoint", "env", "unlisted"}

\* per optional field: None, a value that is false in a test for truth, and
\* another value
FieldInputs ==
    [aliases |-> <<None, Some(<<>>), Some(<<"x", "y">>)>>,
     ttl |-> <<None, Some(0), Some(1500)>>,
     check_endpoint |-> <<None, Some(""), Some("/health")>>,
     env |-> <<None, Some(<<>>), Some(<< <<<<"K">>, <<"1">>>>, <<<<"L">>, <<>>>> >>)>>,
     unlisted |-> <<None, Some(FALSE), Some(TRUE)>>]

\* the combinations drawn: at most one field set, or all fields set alike
FieldChoices ==
    {t \in [OptionalFields -> 1..3] :
        \/ Cardinality({f \in OptionalFields : t[f] # 1}) <= 1
        \/ \E k \in 2..3 : \A f \in OptionalFields : t[f] = k}

\* the entries LlamaCppConfig.build returns for the base configurations
BuiltEntries == {build(c, {c.binary, c.model}).ret[1] : c \in BaseConfigs}

\* entries with optional fields, as a caller of LlamaSwapModel composes them
EntryInputs ==
    BuiltEntries \cup
    {LlamaSwapModel(e.name, e.cmd,
                    FieldInputs.aliases[t["aliases"]], FieldInputs.ttl[t["ttl"]],
                    FieldInputs.check_endpoint[t["check_endpoint"]],
                    FieldInputs.env[t["env"]], FieldInputs.unlisted[t["unlisted"]]) :
        e \in BuiltEntries, t \in FieldChoices}

\* values of --llama-swap-listen-port, an int option without a range
PortInputs == {0 - 1, 0, 1, 8080, 65535, 65536}

ConfigPath == "/tmp/llama_swap_config.yaml"

\* f"0.0.0.0:{cfg.listen_port}"
ListenAddr(port) == [host |-> "0.0.0.0", port |-> port]

(***************************************************************************)
(* Actions of the configuration component                                  *)
(***************************************************************************)
ConfigInit ==
    /\ cpc = "new"
    /\ cfgs = <<>>
    /\ cur = 0
    /\ last_added = EmptyMap
    /\ overwritten = {}
    /\ cfg_file = <<>>
    /\ launch_argv = <<>>
    /\ ResolveIdle
    /\ ServeIdle
    /\ NginxIdle
    /\ LlamaCppIdle
    /\ RaceIdle

\* LlamaSwapConfig(listen_port=...)
Construct ==
    /\ cpc = "new"
    /\ \E p \in PortInputs :
        /\ cfgs' = <<LlamaSwapConfigInit(p)>>
        /\ cur' = 1
    /\ cpc' = "building"
    /\ UNCHANGED <<last_added, overwritten, cfg_file, launch_argv, rvars, svars, nvars, lvars, tvars>>

\* one call of the chain cfg.add_model(...).add_model(...): the call is made
\* on the result of the call before it
AddModel ==
    /\ cpc = "building"
    /\ \E m \in EntryInputs :
        LET r == add_model(cfgs, cur, m) IN
        /\ cfgs' = r.heap
        /\ cur' = r.ret
        /\ last_added' = [n \in DOMAIN last_added \cup {m.name} |->
                             IF n = m.name THEN m ELSE last_added[n]]
        /\ overwritten' = IF m.name \in DOMAIN last_added /\ last_added[m.name] # m
                          THEN overwritten \cup {m.name} ELSE overwritten
    /\ UNCHANGED <<cpc, cfg_file, launch_argv, rvars, svars, nvars, lvars, tvars>>

\* start_llama_swap_server: writes the document and launches the supervisor
Launch ==
    /\ cpc = "building"
    /\ cfg_file' = Some(to_yaml(cfgs[cur]))
    /\ launch_argv' = <<"llama-swap-linux-amd64", "-config", ConfigPath,
                        "-listen", ListenAddr(cfgs[cur].listen_port)>>
    /\ cpc' = "launched"
    /\ UNCHANGED <<cfgs, cur, last_added, overwritten, rvars, svars, nvars, lvars, tvars>>

ConfigNext == Construct \/ AddModel \/ Launch

ConfigSpec == ConfigInit /\ [][ConfigNext]_vars




\* C12: after any sequence of add_model calls the models mapping holds exactly
\* the names added, each with the entry added last under it, every call
\* returned the object it was called on, and the written document holds
\* exactly the serialized entries of that mapping
C12_LastWriteWins ==
    cpc \in {"building", "launched"} =>
        /\ cur = 1
        /\ Len(cfgs) = 1
        /\ DOMAIN cfgs[1].models = DOMAIN last_added
        /\ \A n \in DOMAIN last_added : cfgs[1].models[n] = last_added[n]
        /\ cfg_file # <<>> =>
               /\ DOMAIN cfg_file[1].models = DOMAIN last_added
               /\ \A n \in DOMAIN last_added :
                      cfg_file[1].models[n] = to_dict(last_added[n])

\* an entry was replaced by a different one of the same name, another name is
\* stored beside it, and the document was written
C12_Witness ==
    /\ cpc = "launched"
    /\ overwritten # {}
    /\ Cardinality(DOMAIN last_added) = 2

\* C13: the listen port of every constructed configuration, and of every
\* supervisor launch, is a TCP port in 1..65535
C13_PortInRange ==
    /\ \A i \in 1..Len(cfgs) : cfgs[i].listen_port \in 1..65535
    /\ launch_argv # <<>> => launch_argv[5].port \in 1..65535

\* the six keys of a serialized entry
EntryKeys == {"cmd", "aliases", "ttl", "checkEndpoint", "env", "unlisted"}

\* the entry field a key of the serialized entry is written from
FieldOfKey(k) == IF k = "checkEndpoint" THEN "check_endpoint" ELSE k

\* C14: every serialized entry has the key cmd, has each optional key exactly
\* when the field of the entry is not None, and an entry as build returns it
\* has the key cmd alone
C14_KeysIffPresent ==
    cfg_file # <<>> =>
        \A n \in DOMAIN cfg_file[1].models :
            LET d == cfg_file[1].models[n]
                e == cfgs[cur].models[n]
            IN  /\ "cmd" \in DOMAIN d
                /\ d["cmd"] = e.cmd
                /\ DOMAIN d \subseteq EntryKeys
                /\ \A k \in EntryKeys \ {"cmd"} :
                       k \in DOMAIN d <=> e[FieldOfKey(k)] # None
                /\ e \in BuiltEntries => DOMAIN d = {"cmd"}

\* a written document with an entry from build, an entry whose optional
\* fields are all set to values that are false in a test for truth
C14_Witness ==
    /\ cfg_file # <<>>
    /\ \E n \in DOMAIN cfg_file[1].models : cfgs[cur].models[n] \in BuiltEntries
    /\ \E n \in DOMAIN cfg_file[1].models :
           /\ DOMAIN cfg_file[1].models[n] = EntryKeys
           /\ cfgs[cur].models[n].unlisted = Some(FALSE)

(***************************************************************************)
(* start_nginx_reverse_proxy (nginx.py)                                    *)
(*                                                                         *)
(* The configuration text is modelled as the directives nginx parses from  *)
(* it: a directive is [name, args, block], block being the directives      *)
(* between its braces.                                                     *)
(***************************************************************************)
Directive(name, args) == [name |-> name, args |-> args, block |-> <<>>]
Block(name, args, block) == [name |-> name, args |-> args, block |-> block]

\* f"Bearer {api_token}"
BearerValue(token) == <<"Bearer ", token>>

\* f"http://localhost:{llama_swap_port}"
Upstream(port) == <<"http://localhost:", port>>

\* the auth_block text of nginx.py:35-42: empty unless api_token is truthy
auth_block(token) ==
    IF Truthy(token)
    THEN <<Block("if", <<"$http_authorization", "!=", BearerValue(token)>>,
                 <<Directive("return", <<"403">>)>>)>>
    ELSE <<>>

\* the three directives both locations share
ProxyDirectives(llama_swap_port) ==
    <<Directive("proxy_pass", <<Upstream(llama_swap_port)>>),
      Directive("proxy_set_header", <<"Host", "$host">>),
      Directive("proxy_set_header", <<"X-Real-IP", "$remote_addr">>)>>

\* variant of the configuration with the check in the default location only
render_GuardsDefaultOnly(token, llama_swap_port, listen_port) ==
    <<Block("events", <<>>, <<Directive("worker_connections", <<"32">>)>>),
      Block("http", <<>>,
        <<Directive("proxy_read_timeout", <<"24h">>),
          Directive("proxy_send_timeout", <<"24h">>),
          Block("server", <<>>,
            <<Directive("listen", <<listen_port>>),
              Directive("server_name", <<"0.0.0.0">>),
              Block("location", <<"/">>,
                    auth_block(token) \o ProxyDirectives(llama_swap_port)),
              Block("location", <<"~*", "(/logs/streamSSE/|/api/modelsSSE)">>,
                    ProxyDirectives(llama_swap_port)
                    \o <<Directive("proxy_buffering", <<"off">>),
                         Directive("proxy_cache", <<"off">>),
                         Directive("proxy_read_timeout", <<"24h">>),
                         Directive("proxy_send_timeout", <<"24h">>)>>)>>)>>)>>

\* config_content of nginx.py:44-80
render(token, llama_swap_port, listen_port) ==
    <<Block("events", <<>>, <<Directive("worker_connections", <<"32">>)>>),
      Block("http", <<>>,
        <<Directive("proxy_read_timeout", <<"24h">>),
          Directive("proxy_send_timeout", <<"24h">>),
          Block("server", <<>>,
            <<Directive("listen", <<listen_port>>),
              Directive("server_name", <<"0.0.0.0">>),
              Block("location", <<"/">>,
                    auth_block(token) \o ProxyDirectives(llama_swap_port)),
              Block("location", <<"~*", "(/logs/streamSSE/|/api/modelsSSE)">>,
                    auth_block(token) \o ProxyDirectives(llama_swap_port)
                    \o <<Directive("proxy_buffering", <<"off">>),
                         Directive("proxy_cache", <<"off">>),
                         Directive("proxy_read_timeout", <<"24h">>),
                         Directive("proxy_send_timeout", <<"24h">>)>>)>>)>>)>>

\* the api_token arguments: None, the empty string and two tokens
NginxTokens == Tokens \cup {"hunter2"}
UpstreamPorts == {8080, 8081, 9000, 9001, 11434}
ListenPorts == {80, 443, 8000, 8001, 8443}
\* names tempfile.NamedTemporaryFile(suffix=".conf") may choose
TempNames == {"/tmp/tmpa.conf", "/tmp/tmpb.conf"}

NginxInit ==
    /\ npc = "called"
    /\ n_token \in NginxTokens
    /\ n_upstream \in UpstreamPorts
    /\ n_listen \in ListenPorts
    /\ config_content = <<>>
    /\ config_path = ""
    /\ nginx_argv = <<>>
    /\ ResolveIdle
    /\ ServeIdle
    /\ ConfigIdle
    /\ LlamaCppIdle
    /\ RaceIdle

\* nginx.py:35-80: the configuration text is composed
Render ==
    /\ npc = "called"
    /\ config_content' = render(n_token, n_upstream, n_listen)
    /\ npc' = "rendered"
    /\ UNCHANGED <<n_token, n_upstream, n_listen, config_path, nginx_argv,
                   rvars, svars, cvars, lvars, tvars>>

\* nginx.py:83-85: the text is written to a new temporary file
WriteConf ==
    /\ npc = "rendered"
    /\ config_path' \in TempNames
    /\ npc' = "written"
    /\ UNCHANGED <<n_token, n_upstream, n_listen, config_content, nginx_argv,
                   rvars, svars, cvars, lvars, tvars>>

\* nginx.py:90-94: nginx is started on the file, or Popen raises
StartProc ==
    /\ npc = "written"
    /\ \/ /\ nginx_argv' = <<"nginx", "-c", config_path, "-g", "daemon off;">>
          /\ npc' = "started"
       \/ /\ npc' = "raised"
          /\ UNCHANGED nginx_argv
    /\ UNCHANGED <<n_token, n_upstream, n_listen, config_content, config_path,
                   rvars, svars, cvars, lvars, tvars>>

NginxNext == Render \/ WriteConf \/ StartProc

NginxSpec == NginxInit /\ [][NginxNext]_vars

\* the location blocks of a configuration
Locations(conf) ==
    LET server == conf[2].block[3].block
    IN  {server[i] : i \in {j \in 1..Len(server) : server[j].name = "location"}}

\* d is the check: if the authorization header differs from exactly
\* "Bearer <token>", return 403
IsAuthCheck(d, token) ==
    /\ d.name = "if"
    /\ d.args = <<"$http_authorization", "!=", <<"Bearer ", token>>>>
    /\ Len(d.block) = 1
    /\ d.block[1].name = "return"
    /\ d.block[1].args = <<"403">>

\* loc holds the check, and holds it before every proxy_pass
Guarded(loc, token) ==
    \E i \in 1..Len(loc.block) :
        /\ IsAuthCheck(loc.block[i], token)
        /\ \A j \in 1..Len(loc.block) : loc.block[j].name = "proxy_pass" => i < j

\* loc forwards requests
Proxies(loc) == \E j \in 1..Len(loc.block) : loc.block[j].name = "proxy_pass"

\* loc holds no conditional and no 403 at all
Unguarded(loc) ==
    \A i \in 1..Len(loc.block) : loc.block[i].name \notin {"if", "return"}

\* C15: the generated configuration has two forwarding locations, the default
\* and the streaming one; with a token both hold the 403 check against exactly
\* "Bearer <token>" before proxy_pass, without a token neither holds a check,
\* and never is one guarded and the other not
C15_AuthInBothOrNeither ==
    config_content # <<>> =>
        LET locs == Locations(config_content) IN
        /\ {l.args : l \in locs} = {<<"/">>, <<"~*", "(/logs/streamSSE/|/api/modelsSSE)">>}
        /\ \A l \in locs : Proxies(l)
        /\ n_token \notin {"None", ""} => \A l \in locs : Guarded(l, n_token)
        /\ n_token = "None" => \A l \in locs : Unguarded(l)
        /\ (\A l \in locs : Unguarded(l)) \/ (\A l \in locs : Guarded(l, n_token))

\* nginx was started on a configuration rendered with a token
C15_Witness ==
    /\ npc = "started"
    /\ n_token = "secret"
    /\ \A l \in Locations(config_content) : Guarded(l, n_token)

(***************************************************************************)
(* Actions of the LlamaCppConfig component                                 *)
(***************************************************************************)
LlamaCppInit ==
    /\ lpc = "new"
    /\ lheap = <<>>
    /\ existing \in SUBSET {B_server, M_plain}
    /\ base0 = <<>>
    /\ base_cmd = <<>>
    /\ recv = 0
    /\ before = <<>>
    /\ lret = 0
    /\ built = <<>>
    /\ ResolveIdle
    /\ ServeIdle
    /\ ConfigIdle
    /\ NginxIdle
    /\ RaceIdle

\* LlamaCppConfig(name, binary, model, params); the outcome of building it
\* at once is recorded
NewBase ==
    /\ lpc = "new"
    /\ \E c \in BaseConfigs :
        /\ lheap' = <<Some(c), None, None>>
        /\ base0' = Some(c)
        /\ base_cmd' = Some(build(c, existing))
    /\ lpc' = "ready"
    /\ UNCHANGED <<existing, recv, before, lret, built, rvars, svars, cvars, nvars, tvars>>

\* the objects the caller can call: the base and the last derived one
Callable == {1} \cup ({lret} \ {0})

\* the heap once everything but the base and the object i is collected
Collect(heap, i) == [j \in Ids |-> IF j \in {1, i} THEN heap[j] ELSE None]

\* a with_params call on a callable object
WithParams ==
    /\ lpc = "ready"
    /\ \E i \in Callable, kw \in KwargsInputs :
        LET r == with_params(Collect(lheap, i), i, kw) IN
        /\ lheap' = r.heap
        /\ lret' = r.ret
        /\ recv' = i
        /\ before' = lheap[i]
    /\ built' = <<>>
    /\ UNCHANGED <<lpc, existing, base0, base_cmd, rvars, svars, cvars, nvars, tvars>>

\* a without_params call on a callable object
WithoutParams ==
    /\ lpc = "ready"
    /\ \E i \in Callable, names \in NamesInputs :
        LET r == without_params(Collect(lheap, i), i, names) IN
        /\ lheap' = r.heap
        /\ lret' = r.ret
        /\ recv' = i
        /\ before' = lheap[i]
    /\ built' = <<>>
    /\ UNCHANGED <<lpc, existing, base0, base_cmd, rvars, svars, cvars, nvars, tvars>>

\* a build call on a callable object
Build ==
    /\ lpc = "ready"
    /\ \E i \in Callable :
        built' = Some([obj |-> lheap[i][1], out |-> build(lheap[i][1], existing)])
    /\ UNCHANGED <<lpc, lheap, existing, base0, base_cmd, recv, before, lret,
                   rvars, svars, cvars, nvars, tvars>>

LlamaCppNext == NewBase \/ WithParams \/ WithoutParams \/ Build

LlamaCppSpec == LlamaCppInit /\ [][LlamaCppNext]_vars

\* C16: a derivation returns an object other than its receiver and leaves the
\* receiver as it was, and after any derivations the base is as constructed
\* and builds to the outcome it built to when constructed
C16_DerivationsLeaveReceiver ==
    lpc = "ready" =>
        /\ lheap[1] = base0
        /\ build(lheap[1][1], existing) = base_cmd[1]
        /\ recv # 0 =>
               /\ lret # recv
               /\ lheap[lret] # None
               /\ lheap[recv] = before

\* a derivation from a derived object, with flags that differ from those of
\* the base, while the base builds to a command line
C16_Witness ==
    /\ lpc = "ready"
    /\ recv \notin {0, 1}
    /\ lheap[lret][1].params # base0[1].params
    /\ lheap[recv][1].params # base0[1].params
    /\ base_cmd[1].ok

\* C17: build raises, and returns no entry, whenever the binary or the model
\* does not exist; the error names the missing path, the binary when both
\* are missing
C17_BuildFailsOnMissingPath ==
    built # <<>> =>
        LET o == built[1].obj
            out == built[1].out
        IN  (o.binary \notin existing \/ o.model \notin existing) =>
                /\ ~out.ok
                /\ out.ret = None
                /\ out.err[1] = "ValueError"
                /\ o.binary \notin existing => out.err[2] = "Binary" /\ out.err[3] = o.binary
                /\ o.binary \in existing => out.err[2] = "Model" /\ out.err[3] = o.model

\* build was called with neither the binary nor the model existing
C17_Witness ==
    /\ built # <<>>
    /\ built[1].obj.binary \notin existing
    /\ built[1].obj.model \notin existing

\* the words a shell reads from a command line: split at spaces outside
\* single quotes, the quotes removed
RECURSIVE WordsFrom(_, _, _, _)
WordsFrom(s, i, quoted, word) ==
    IF i > Len(s) THEN (IF word = <<>> THEN <<>> ELSE <<word>>)
    ELSE IF s[i] = "'" THEN WordsFrom(s, i + 1, ~quoted, word)
    ELSE IF s[i] = " " /\ ~quoted
         THEN (IF word = <<>> THEN <<>> ELSE <<word>>) \o WordsFrom(s, i + 1, FALSE, <<>>)
    ELSE WordsFrom(s, i + 1, quoted, Append(word, s[i]))

Words(s) == WordsFrom(s, 1, FALSE, <<>>)

\* the object o with the flags ps in place of its own
WithFlags(o, ps) == [o EXCEPT !.params = ps]

\* the sequence s without its element i
Drop(s, i) == SubSeq(s, 1, i - 1) \o SubSeq(s, i + 1, Len(s))

\* the words "--<flag>" stands for
FlagWord(k) == <<"-", "-">> \o [i \in 1..Len(k) |-> IF k[i] = "_" THEN "-" ELSE k[i]]

\* C18: in the command line of a built entry a flag set to False adds no
\* word, a flag set to True or None adds exactly the word --<flag>, and the
\* words of the other flags are what they are without that flag, in the same
\* order
C18_BoolAndNoneFlags ==
    (built # <<>> /\ built[1].out.ok) =>
        LET o == built[1].obj
            ws == Words(built[1].out.ret[1].cmd)
        IN  \A i \in 1..Len(o.params) :
                LET v == o.params[i][2]
                    others == Words(cmdline(WithFlags(o, Drop(o.params, i))))
                    pos == Len(Words(cmdline(WithFlags(o, SubSeq(o.params, 1, i - 1)))))
                IN  /\ v = Py_False => ws = others
                    /\ v \in {Py_True, Py_None} =>
                           ws = SubSeq(others, 1, pos) \o <<FlagWord(o.params[i][1])>>
                                \o SubSeq(others, pos + 1, Len(others))

\* a built command line of a flag set to False, a flag set to None and a
\* flag with a value after the one set to False
C18_Witness ==
    /\ built # <<>>
    /\ built[1].out.ok
    /\ LET ps == built[1].obj.params IN
       /\ \E i, j \in 1..Len(ps) :
              i < j /\ ps[i][2] = Py_False /\ ps[j][2].t \in {"Path", "int"}
       /\ \E i \in 1..Len(ps) : ps[i][2] = Py_None

C20_InterruptSignalsAllChildren ==
    (Ended /\ ~detach /\ interrupts > 0 /\ terminate_failed = {}) =>
        \A c \in Children : Spawned(c) => TerminateCalled(c)

(***************************************************************************)
(* Claims about the warning, the configuration file and a failed launch    *)
(***************************************************************************)
\* C21: whenever the reverse proxy was started on a configuration without
\* the authorization check, serve printed the warning that the application
\* is not protected before it started the proxy, whatever API_TOKEN is
C21_WarnedWhenOpen ==
    (Spawned("nginx") /\ ~nginx_auth) => warned

(***************************************************************************)
(* Two serve invocations on one host: start_llama_swap_server              *)
(* (llama_swap.py:80-102) run by each, and each supervisor reading the     *)
(* file named by its -config argument                                      *)
(***************************************************************************)
Invocations == {1, 2}

\* the configurations an invocation passes: a built entry added to a new
\* LlamaSwapConfig
ServeConfigs ==
    {add_model(<<LlamaSwapConfigInit(p)>>, 1, e).heap[1] :
        p \in {8080, 8081}, e \in BuiltEntries}

TwoServeInit ==
    /\ inv_pc = <<"start", "start">>
    /\ inv_cfg \in {c \in ServeConfigs \X ServeConfigs : to_yaml(c[1]) # to_yaml(c[2])}
    \* the file is absent, or left by an earlier run
    /\ shared_file \in {[exists |-> FALSE, text |-> <<>>]}
                       \cup {[exists |-> TRUE, text |-> Some(to_yaml(c))] : c \in ServeConfigs}
    /\ inv_read = <<<<>>, <<>>>>
    /\ ResolveIdle
    /\ ServeIdle
    /\ ConfigIdle
    /\ NginxIdle
    /\ LlamaCppIdle

\* llama_swap.py:86: open(ConfigPath, "w") creates the file or empties it
OpenWrite(i) ==
    /\ inv_pc[i] = "start"
    /\ shared_file' = [exists |-> TRUE, text |-> <<>>]
    /\ inv_pc' = [inv_pc EXCEPT ![i] = "opened"]
    /\ UNCHANGED <<inv_cfg, inv_read, rvars, svars, cvars, nvars, lvars>>

\* llama_swap.py:87: the document is written and the file closed
WriteDoc(i) ==
    /\ inv_pc[i] = "opened"
    /\ shared_file' = [exists |-> TRUE, text |-> Some(to_yaml(inv_cfg[i]))]
    /\ inv_pc' = [inv_pc EXCEPT ![i] = "written"]
    /\ UNCHANGED <<inv_cfg, inv_read, rvars, svars, cvars, nvars, lvars>>

\* llama_swap.py:89-90: the file is read back and printed
ReadBack(i) ==
    /\ inv_pc[i] = "written"
    /\ inv_pc' = [inv_pc EXCEPT ![i] = "printed"]
    /\ UNCHANGED <<inv_cfg, shared_file, inv_read, rvars, svars, cvars, nvars, lvars>>

\* llama_swap.py:92-102: the supervisor is spawned with -config ConfigPath
SpawnSupervisor(i) ==
    /\ inv_pc[i] = "printed"
    /\ inv_pc' = [inv_pc EXCEPT ![i] = "spawned"]
    /\ UNCHANGED <<inv_cfg, shared_file, inv_read, rvars, svars, cvars, nvars, lvars>>

\* the spawned supervisor reads the file its -config argument names
SupervisorLoads(i) ==
    /\ inv_pc[i] = "spawned"
    /\ inv_read' = [inv_read EXCEPT ![i] = Some(shared_file.text)]
    /\ inv_pc' = [inv_pc EXCEPT ![i] = "loaded"]
    /\ UNCHANGED <<inv_cfg, shared_file, rvars, svars, cvars, nvars, lvars>>

TwoServeNext ==
    \E i \in Invocations :
        \/ OpenWrite(i)
        \/ WriteDoc(i)
        \/ ReadBack(i)
        \/ SpawnSupervisor(i)
        \/ SupervisorLoads(i)

TwoServeSpec == TwoServeInit /\ [][TwoServeNext]_vars

\* C22: of two concurrent serve invocations with different configurations,
\* each supervisor reads from its configuration file the document serialized
\* from the configuration of its own invocation
C22_SupervisorReadsOwnDocument ==
    \A i \in Invocations :
        inv_read[i] # <<>> => inv_read[i][1] = Some(to_yaml(inv_cfg[i]))

\* C23: when spawning the supervisor fails after the reverse proxy was
\* spawned, the error leaves serve, which ends with a non-zero exit code
\* without spawning the supervisor again and without calling terminate on
\* the reverse proxy: the proxy is not stopped by serve
C23_LaunchErrorLeavesProxy ==
    error = "OSError: llama-swap" =>
        /\ pc = "raised"
        /\ exit_code # NoCode /\ exit_code # 0
        /\ proc["swap"].state = "none"
        /\ terminate_calls = <<>>
        /\ proc["nginx"].state \in {"running", "exited"}

\* serve has ended on the launch error of the supervisor, the reverse proxy
\* running
C23_Witness ==
    /\ pc = "raised"
    /\ error = "OSError: llama-swap"
    /\ proc["nginx"].state = "running"
    /\ proc["swap"].state = "none"
====
